---------------------------- MODULE Spec2Model ----------------------------
(***************************************************************************)
(* Plackett-Luce MM fitting (plackett_luce.py) and the iterative Kosaraju  *)
(* strongly-connected-components routine it uses as a precondition check   *)
(* (graph_lib.py).                                                         *)
(*                                                                         *)
(* Numbers.  The program computes with Python floats.  The model computes  *)
(* the same expressions over exact rationals [n |-> numerator, d |->       *)
(* denominator] in lowest terms.  d = 0 encodes the two non-finite values  *)
(* numpy produces instead of raising (Inf, NaN); d = -1 marks a value that *)
(* does not fit the integer range of the model checker (OOR): a run whose  *)
(* next iterate is out of range is not stepped further.                    *)
(*                                                                         *)
(* Iteration order of Python sets and dicts is not fixed by the language:  *)
(* in the step-by-step model of scc it is a nondeterministic choice.       *)
(***************************************************************************)
EXTENDS Integers, Sequences, FiniteSets, TLC

\* ------------------------------------------------------------------------
\* Bounds of the model
\* ------------------------------------------------------------------------
MaxEdges == 3

MaxRankings == 3

MaxIter == 3

MaxNum == 1000000000

Competitors == {1, 2, 3}

\* inverse tolerances: 1e-9 is the default of plackett_luce and pl_numpy
Tolerances == {[n |-> 1, d |-> 1000000000], [n |-> 1, d |-> 4]}

\* ------------------------------------------------------------------------
\* Generic helpers
\* ------------------------------------------------------------------------
Range(s) == {s[i] : i \in DOMAIN s}

Abs(x) == IF x < 0 THEN -x ELSE x

Min(a, b) == IF a < b THEN a ELSE b

RECURSIVE Gcd(_, _)
Gcd(a, b) == IF b = 0 THEN a ELSE Gcd(b, a % b)

\* all orders in which the elements of a finite set can be iterated
Perms(S) ==
  {s \in [1..Cardinality(S) -> S] : \A i, j \in 1..Cardinality(S) : i # j => s[i] # s[j]}

\* one fixed iteration order (ascending), used where the order cannot matter
RECURSIVE AscSeq(_)
AscSeq(S) ==
  IF S = {} THEN <<>>
  ELSE LET m == CHOOSE x \in S : \A y \in S : x <= y
       IN <<m>> \o AscSeq(S \ {m})

\* the same function, with every value computed once
Eager(f) == f @@ <<>>

Reverse(s) == [i \in 1..Len(s) |-> s[Len(s) + 1 - i]]

\* ------------------------------------------------------------------------
\* Exact rational arithmetic standing for float arithmetic
\* ------------------------------------------------------------------------
Zero == [n |-> 0, d |-> 1]

Inf == [n |-> 1, d |-> 0]

NaN == [n |-> 0, d |-> 0]

OOR == [n |-> 0, d |-> -1]

IsFinite(a) == a.d > 0

IsOOR(a) == a.d = -1

Fits(x, y) == x = 0 \/ y = 0 \/ Abs(x) <= MaxNum \div Abs(y)

Frac(n, d) ==
  LET g == Gcd(Abs(n), Abs(d))
  IN IF d < 0 THEN [n |-> (-n) \div g, d |-> (-d) \div g]
     ELSE [n |-> n \div g, d |-> d \div g]

IntQ(k) == [n |-> k, d |-> 1]

RAdd(a, b) ==
  IF IsOOR(a) \/ IsOOR(b) THEN OOR
  ELSE IF a = Zero THEN b
  ELSE IF b = Zero THEN a
  ELSE LET g  == Gcd(a.d, b.d)
           m1 == b.d \div g
           m2 == a.d \div g
       IN IF Fits(a.n, m1) /\ Fits(b.n, m2) /\ Fits(a.d, m1)
          THEN Frac(a.n * m1 + b.n * m2, a.d * m1)
          ELSE OOR

RNeg(a) == IF IsOOR(a) THEN OOR ELSE [n |-> -a.n, d |-> a.d]

RSub(a, b) == RAdd(a, RNeg(b))

RMul(a, b) ==
  IF IsOOR(a) \/ IsOOR(b) THEN OOR
  ELSE LET g1 == Gcd(Abs(a.n), b.d)
           g2 == Gcd(Abs(b.n), a.d)
           n1 == a.n \div g1
           n2 == b.n \div g2
           d1 == a.d \div g2
           d2 == b.d \div g1
       IN IF Fits(n1, n2) /\ Fits(d1, d2)
          THEN Frac(n1 * n2, d1 * d2)
          ELSE OOR

\* reciprocal of a non-zero finite rational
RInv(a) ==
  IF IsOOR(a) THEN OOR
  ELSE IF a.n = 0 THEN Inf
  ELSE IF a.n < 0 THEN [n |-> -a.d, d |-> -a.n] ELSE [n |-> a.d, d |-> a.n]

RDiv(a, b) == RMul(a, RInv(b))

RECURSIVE RSum(_)
RSum(s) == IF s = <<>> THEN Zero ELSE RAdd(s[1], RSum(Tail(s)))


\* ------------------------------------------------------------------------
\* State
\* ------------------------------------------------------------------------
VARIABLES
  \* scc(edges): graph_lib.py
  edges,            \* the argument: a list of (source, dest) pairs
  nodes,            \* set of edge endpoints
  out_neighbors,    \* node -> set of successors
  in_neighbors,     \* node -> set of predecessors
  visited,          \* nodes reached by pass 1
  roots,            \* node -> root, filled by pass 2
  stack_forward,    \* pass 1 work list of <<complete, node>>, top at the end
  stack_backward,   \* finishing list, then pass 2 work list of <<u, root>>
  scc_pc,           \* "idle", "build", "pass1", "pass2", "done"
  appended,         \* history: node -> number of appends to the finishing list
  assigned,         \* history: node -> number of assignments roots[node] = ...
  \* plackett_luce(rankings, tolerance, check_assumption, normalize)
  rankings_in,      \* the argument: a list of dicts player -> finish
  tolerance,
  check_assumption,
  normalize,
  pc,               \* "idle", "start", "loop", "done", "error", "cut"
  players,
  rankings,         \* the rankings as lists ordered by finish
  ws,
  gammas,
  gdiff2,           \* gdiff squared (gdiff itself is a square root)
  iteration,
  result,           \* None, or the returned dict
  \* pl_numpy(rankings, tolerance, check_assumption, normalize)
  np_pc,            \* "idle", "start", "loop", "done", "error", "cut"
  np_f,
  np_r,
  np_w,
  np_pp,
  np_gammas,
  np_gdiff2,
  np_iterations,
  np_result

scc_vars == <<edges, nodes, out_neighbors, in_neighbors, visited, roots,
              stack_forward, stack_backward, scc_pc, appended, assigned>>

in_vars == <<rankings_in, tolerance, check_assumption, normalize>>

pl_vars == <<pc, players, rankings, ws, gammas, gdiff2, iteration, result>>

np_vars == <<np_pc, np_f, np_r, np_w, np_pp, np_gammas, np_gdiff2, np_iterations, np_result>>

vars == <<scc_vars, in_vars, pl_vars, np_vars>>

\* what a call returns: None, or a dict
None == [none |-> TRUE, dict |-> <<>>]

Dict(g) == [none |-> FALSE, dict |-> g]

EmptyMap == [x \in {} |-> 0]

\* ------------------------------------------------------------------------
\* graph_lib.scc
\* ------------------------------------------------------------------------
Endpoints(es) == {e[1] : e \in Range(es)} \cup {e[2] : e \in Range(es)}

OutNeighbors(es) ==
  [u \in Competitors |-> {e[2] : e \in {x \in Range(es) : x[1] = u}}]

\* faulty variant: the reverse adjacency filled like the forward one
InNeighbors_mut(es) == OutNeighbors(es)

InNeighbors(es) ==
  [u \in Competitors |-> {e[1] : e \in {x \in Range(es) : x[2] = u}}]

\* lines 15-28: the state before the first loop; order is the iteration
\* order of the set nodes
SccStart(es, order) ==
  [visited        |-> {},
   roots          |-> EmptyMap,
   stack_forward  |-> [i \in 1..Len(order) |-> <<FALSE, order[i]>>],
   stack_backward |-> <<>>,
   appended       |-> [u \in Competitors |-> 0],
   assigned       |-> [u \in Competitors |-> 0]]

Pop(stack) == SubSeq(stack, 1, Len(stack) - 1)

Top(stack) == stack[Len(stack)]

\* faulty variant: "elif complete" weakened to "else"
ForwardStep_mut(st, order) ==
  LET node == Top(st.stack_forward)[2]
      rest == Pop(st.stack_forward)
  IN IF node \notin st.visited
     THEN [st EXCEPT !.visited = @ \cup {node},
                     !.stack_forward =
                        Append(rest, <<TRUE, node>>)
                          \o [i \in 1..Len(order) |-> <<FALSE, order[i]>>]]
     ELSE [st EXCEPT !.stack_forward = rest,
                     !.stack_backward = Append(@, <<node, node>>),
                     !.appended[node] = @ + 1]

\* lines 31-37: one turn of the first loop; order is the iteration order
\* of out_neighbors[node]
ForwardStep(st, order) ==
  LET complete == Top(st.stack_forward)[1]
      node     == Top(st.stack_forward)[2]
      rest     == Pop(st.stack_forward)
  IN IF node \notin st.visited
     THEN [st EXCEPT !.visited = @ \cup {node},
                     !.stack_forward =
                        Append(rest, <<TRUE, node>>)
                          \o [i \in 1..Len(order) |-> <<FALSE, order[i]>>]]
     ELSE IF complete
     THEN [st EXCEPT !.stack_forward = rest,
                     !.stack_backward = Append(@, <<node, node>>),
                     !.appended[node] = @ + 1]
     ELSE [st EXCEPT !.stack_forward = rest]

\* faulty variant: roots[u] = u
BackwardStep_mut(st, order) ==
  LET u    == Top(st.stack_backward)[1]
      root == Top(st.stack_backward)[2]
      rest == Pop(st.stack_backward)
  IN IF u \notin DOMAIN st.roots
     THEN [st EXCEPT !.roots = @ @@ (u :> u),
                     !.stack_backward =
                        rest \o [i \in 1..Len(order) |-> <<order[i], root>>],
                     !.assigned[u] = @ + 1]
     ELSE [st EXCEPT !.stack_backward = rest]

\* lines 40-43: one turn of the second loop; order is the iteration order
\* of in_neighbors[u]
BackwardStep(st, order) ==
  LET u    == Top(st.stack_backward)[1]
      root == Top(st.stack_backward)[2]
      rest == Pop(st.stack_backward)
  IN IF u \notin DOMAIN st.roots
     THEN [st EXCEPT !.roots = @ @@ (u :> root),
                     !.stack_backward =
                        rest \o [i \in 1..Len(order) |-> <<order[i], root>>],
                     !.assigned[u] = @ + 1]
     ELSE [st EXCEPT !.stack_backward = rest]

\* the two loops run to completion with every set iterated in ascending order
RECURSIVE SccRun(_, _, _)
SccRun(st, outn, inn) ==
  IF st.stack_forward # <<>>
  THEN SccRun(ForwardStep(st, AscSeq(outn[Top(st.stack_forward)[2]])), outn, inn)
  ELSE IF st.stack_backward # <<>>
  THEN SccRun(BackwardStep(st, AscSeq(inn[Top(st.stack_backward)[1]])), outn, inn)
  ELSE st

\* scc(edges), line 45
Scc(es) ==
  SccRun(SccStart(es, AscSeq(Endpoints(es))), OutNeighbors(es), InNeighbors(es)).roots

SccSt ==
  [visited |-> visited, roots |-> roots, stack_forward |-> stack_forward,
   stack_backward |-> stack_backward, appended |-> appended, assigned |-> assigned]

SccSet(st) ==
  /\ visited' = st.visited
  /\ roots' = st.roots
  /\ stack_forward' = st.stack_forward
  /\ stack_backward' = st.stack_backward
  /\ appended' = st.appended
  /\ assigned' = st.assigned

\* lines 15-28
SccBuild ==
  /\ scc_pc = "build"
  /\ nodes' = Endpoints(edges)
  /\ out_neighbors' = OutNeighbors(edges)
  /\ in_neighbors' = InNeighbors(edges)
  /\ \E order \in Perms(Endpoints(edges)) : SccSet(SccStart(edges, order))
  /\ scc_pc' = "pass1"
  /\ UNCHANGED <<edges, in_vars, pl_vars, np_vars>>

\* lines 30-37
SccPass1Step ==
  /\ scc_pc = "pass1"
  /\ stack_forward # <<>>
  /\ \E order \in Perms(out_neighbors[Top(stack_forward)[2]]) :
        SccSet(ForwardStep(SccSt, order))
  /\ UNCHANGED <<edges, nodes, out_neighbors, in_neighbors, scc_pc,
                 in_vars, pl_vars, np_vars>>

\* line 30, the loop condition failing
SccPass1Exit ==
  /\ scc_pc = "pass1"
  /\ stack_forward = <<>>
  /\ scc_pc' = "pass2"
  /\ UNCHANGED <<edges, nodes, out_neighbors, in_neighbors, visited, roots,
                 stack_forward, stack_backward, appended, assigned,
                 in_vars, pl_vars, np_vars>>

\* lines 39-43
SccPass2Step ==
  /\ scc_pc = "pass2"
  /\ stack_backward # <<>>
  /\ \E order \in Perms(in_neighbors[Top(stack_backward)[1]]) :
        SccSet(BackwardStep(SccSt, order))
  /\ UNCHANGED <<edges, nodes, out_neighbors, in_neighbors, scc_pc,
                 in_vars, pl_vars, np_vars>>

\* lines 39 and 45: the loop condition failing, return roots
SccReturn ==
  /\ scc_pc = "pass2"
  /\ stack_backward = <<>>
  /\ scc_pc' = "done"
  /\ UNCHANGED <<edges, nodes, out_neighbors, in_neighbors, visited, roots,
                 stack_forward, stack_backward, appended, assigned,
                 in_vars, pl_vars, np_vars>>

EdgeLists == UNION {[1..k -> Competitors \X Competitors] : k \in 0..MaxEdges}

SccIdle ==
  /\ nodes = {}
  /\ out_neighbors = [u \in Competitors |-> {}]
  /\ in_neighbors = [u \in Competitors |-> {}]
  /\ visited = {}
  /\ roots = EmptyMap
  /\ stack_forward = <<>>
  /\ stack_backward = <<>>
  /\ appended = [u \in Competitors |-> 0]
  /\ assigned = [u \in Competitors |-> 0]

PLIdle ==
  /\ rankings_in = <<>>
  /\ tolerance = [n |-> 1, d |-> 1000000000]
  /\ check_assumption = TRUE
  /\ normalize = TRUE
  /\ pc = "idle"
  /\ players = {}
  /\ rankings = <<>>
  /\ ws = EmptyMap
  /\ gammas = EmptyMap
  /\ gdiff2 = Inf
  /\ iteration = 0
  /\ result = None

NPIdle ==
  /\ np_pc = "idle"
  /\ np_f = <<>>
  /\ np_r = <<>>
  /\ np_w = <<>>
  /\ np_pp = <<>>
  /\ np_gammas = EmptyMap
  /\ np_gdiff2 = Inf
  /\ np_iterations = 0
  /\ np_result = None

\* a call scc(edges)
InitScc ==
  /\ edges \in EdgeLists
  /\ scc_pc = "build"
  /\ SccIdle
  /\ PLIdle
  /\ NPIdle

NextScc == SccBuild \/ SccPass1Step \/ SccPass1Exit \/ SccPass2Step \/ SccReturn

SpecScc == InitScc /\ [][NextScc]_vars

\* the loops of scc are plain sequential code: an enabled step is taken
FairSpecScc == SpecScc /\ WF_vars(NextScc)

\* ------------------------------------------------------------------------
\* plackett_luce.plackett_luce
\* ------------------------------------------------------------------------
IsZero(a) == a.n = 0 /\ a.d = 1

\* line 54
Players(rin) == UNION {DOMAIN rin[i] : i \in DOMAIN rin}

\* the keys S of d in ascending order of their values
RECURSIVE SortKeys(_, _)
SortKeys(S, d) ==
  IF S = {} THEN <<>>
  ELSE LET first == CHOOSE x \in S : \A y \in S : d[x] <= d[y]
       IN <<first>> \o SortKeys(S \ {first}, d)

\* faulty variant: sorted(ranking.keys()), the key forgotten
SortedByFinish_mut(d) == AscSeq(DOMAIN d)

\* line 55: sorted(ranking.keys(), key=ranking.get); finishing positions
\* within one ranking are distinct, so no tie is ever broken
SortedByFinish(d) == SortKeys(DOMAIN d, d)

SortedRankings(rin) == [i \in DOMAIN rin |-> SortedByFinish(rin[i])]

\* itertools.combinations(ranking, 2), in its order
RECURSIVE Combinations2(_)
Combinations2(r) ==
  IF Len(r) < 2 THEN <<>>
  ELSE [j \in 1..(Len(r) - 1) |-> <<r[1], r[j + 1]>>] \o Combinations2(Tail(r))

\* line 57
RECURSIVE PrecedenceEdges(_)
PrecedenceEdges(rs) ==
  IF rs = <<>> THEN <<>>
  ELSE Combinations2(rs[1]) \o PrecedenceEdges(Tail(rs))

\* line 58
SccCount(rs) ==
  LET r == Scc(PrecedenceEdges(rs))
  IN Cardinality({r[u] : u \in DOMAIN r})

\* ranking[:-1]
ButLast(r) == SubSeq(r, 1, Len(r) - 1)

\* line 67: Counter(...); a Counter answers 0 for a name it never saw
Wins(rs) ==
  LET firsts == UNION {{<<i, k>> : k \in 1..(Len(rs[i]) - 1)} : i \in DOMAIN rs}
  IN Eager([p \in Competitors |->
              Cardinality({ik \in firsts : rs[ik[1]][ik[2]] = p})])

\* line 68
UniformGammas(ps) == [p \in ps |-> Frac(1, Cardinality(ps))]

\* itertools.accumulate: running sums
RECURSIVE Accumulate(_)
Accumulate(s) ==
  IF Len(s) = 0 THEN <<>>
  ELSE LET front == Accumulate(ButLast(s))
       IN Append(front, IF Len(s) = 1 THEN s[1] ELSE RAdd(front[Len(s) - 1], s[Len(s)]))

\* line 74 before the division: for each ranking, the sums s, entry k being
\* the sum of the gammas of the finishers at index k and after
ContentionSums(rs, g) ==
  Eager([i \in DOMAIN rs |->
     Eager(Reverse(Accumulate(Eager([k \in 1..Len(rs[i]) |-> g[Reverse(rs[i])[k]]]))))])

\* line 74: 1 / s, entry by entry
GammaSums(sums) ==
  Eager([i \in DOMAIN sums |-> Eager([k \in DOMAIN sums[i] |-> RInv(sums[i][k])])])

\* ranking.index(player), 0-based
Index(r, p) == (CHOOSE k \in 1..Len(r) : r[k] = p /\ \A j \in 1..(k - 1) : r[j] # p) - 1

\* faulty variant: gamma_sum[:ranking.index(player) + 1], the last position not excluded
SliceEnd_mut(r, p) == Index(r, p) + 1

\* line 75: the end of the slice gamma_sum[:min(ranking.index(player) + 1, len(ranking) - 1)]
SliceEnd(r, p) == Min(Index(r, p) + 1, Len(r) - 1)

\* lines 75-77: the divisor of ws[player]
Denominator(p, rs, gsums) ==
  RSum([i \in DOMAIN rs |->
          IF p \in Range(rs[i])
          THEN RSum(SubSeq(gsums[i], 1, SliceEnd(rs[i], p)))
          ELSE Zero])

\* sum(gammas.values())
GammaTotal(g) ==
  LET order == AscSeq(DOMAIN g)
  IN RSum([k \in 1..Len(order) |-> g[order[k]]])

\* line 80
Normalized(g) ==
  LET total == GammaTotal(g)
  IN Eager([p \in DOMAIN g |-> RDiv(g[p], total)])

\* line 82, squared
GDiff2(new, old) ==
  LET order == AscSeq(DOMAIN new)
  IN RSum([k \in 1..Len(order) |->
             LET df == RSub(new[order[k]], old[order[k]])
             IN RMul(df, df)])

AnyOOR(f) == \E x \in DOMAIN f : IsOOR(f[x])

\* lines 73-82: one turn of the loop from the iterate g.  status is "ok",
\* "zerodiv" (ZeroDivisionError raised) or "oor" (outside the model's range)
MMStep(rs, ps, w, g, norm) ==
  LET sums  == ContentionSums(rs, g)
      gsums == GammaSums(sums)
      dens  == Eager([p \in ps |-> Denominator(p, rs, gsums)])
      raw   == Eager([p \in ps |-> RDiv(IntQ(w[p]), dens[p])])
      total == GammaTotal(raw)
      new   == IF norm THEN Normalized(raw) ELSE raw
      gd    == GDiff2(new, g)
      fail(st) == [status |-> st, gammas |-> g, gdiff2 |-> Inf]
  IN IF \E i \in DOMAIN rs : AnyOOR(sums[i]) THEN fail("oor")
     ELSE IF \E i \in DOMAIN rs : \E k \in DOMAIN sums[i] : IsZero(sums[i][k])
          THEN fail("zerodiv")
     ELSE IF AnyOOR(dens) THEN fail("oor")
     ELSE IF \E p \in ps : IsZero(dens[p]) THEN fail("zerodiv")
     ELSE IF AnyOOR(raw) \/ (norm /\ IsOOR(total)) THEN fail("oor")
     ELSE IF norm /\ ps # {} /\ IsZero(total) THEN fail("zerodiv")
     ELSE IF AnyOOR(new) \/ IsOOR(gd) THEN fail("oor")
     ELSE [status |-> "ok", gammas |-> new, gdiff2 |-> gd]

\* line 72: gdiff > tolerance, for a tolerance 1/T, on the square of gdiff
GreaterThanTolerance(s2, tol) ==
  IF s2.d = 0 THEN s2.n # 0
  ELSE s2.n > (s2.d \div tol.d) \div tol.d

\* lines 54-70
Start ==
  /\ pc = "start"
  /\ LET ps == Players(rankings_in)
         rs == SortedRankings(rankings_in)
     IN /\ players' = ps
        /\ rankings' = rs
        /\ IF check_assumption /\ SccCount(rs) # 1
           THEN /\ pc' = "done"
                /\ result' = None
                /\ UNCHANGED <<ws, gammas, gdiff2, iteration>>
           ELSE /\ pc' = "loop"
                /\ ws' = Wins(rs)
                /\ gammas' = UniformGammas(ps)
                /\ gdiff2' = Inf
                /\ iteration' = 0
                /\ UNCHANGED result
  /\ UNCHANGED <<scc_vars, in_vars, np_vars>>

\* lines 72-83: one turn of the while loop; pc = "cut" when the turn would
\* leave the bounds of the model (MaxIter turns, numbers up to MaxNum)
Iterate ==
  /\ pc = "loop"
  /\ GreaterThanTolerance(gdiff2, tolerance)
  /\ \E step \in {IF iteration < MaxIter
                  THEN MMStep(rankings, players, ws, gammas, normalize)
                  ELSE [status |-> "oor"]} :
        IF step.status = "oor"
        THEN /\ pc' = "cut"
             /\ UNCHANGED <<gammas, gdiff2, iteration>>
        ELSE IF step.status = "zerodiv"
        THEN /\ pc' = "error"
             /\ UNCHANGED <<gammas, gdiff2, iteration>>
        ELSE /\ pc' = "loop"
             /\ gammas' = step.gammas
             /\ gdiff2' = step.gdiff2
             /\ iteration' = iteration + 1
  /\ UNCHANGED <<players, rankings, ws, result, scc_vars, in_vars, np_vars>>

\* lines 72 and 90: the loop condition failing, return gammas
Return ==
  /\ pc = "loop"
  /\ ~GreaterThanTolerance(gdiff2, tolerance)
  /\ pc' = "done"
  /\ result' = Dict(gammas)
  /\ UNCHANGED <<players, rankings, ws, gammas, gdiff2, iteration,
                 scc_vars, in_vars, np_vars>>

\* the dicts a caller passes: player -> finish, finishes 1..n without ties
RankingDicts ==
  UNION {{d \in [S -> 1..Cardinality(S)] : \A x, y \in S : x # y => d[x] # d[y]} :
           S \in (SUBSET Competitors) \ {{}}}

RankingInputs == UNION {[1..k -> RankingDicts] : k \in 0..MaxRankings}

\* a call plackett_luce(rankings, tolerance, check_assumption, normalize) and
\* a call pl_numpy(...) with the same arguments
Init ==
  /\ rankings_in \in RankingInputs
  /\ tolerance \in Tolerances
  /\ check_assumption \in BOOLEAN
  /\ normalize \in BOOLEAN
  /\ pc = "start"
  /\ players = {}
  /\ rankings = <<>>
  /\ ws = EmptyMap
  /\ gammas = EmptyMap
  /\ gdiff2 = Inf
  /\ iteration = 0
  /\ result = None
  /\ edges = <<>>
  /\ scc_pc = "idle"
  /\ SccIdle
  /\ np_pc = "start"
  /\ np_f = <<>>
  /\ np_r = <<>>
  /\ np_w = <<>>
  /\ np_pp = <<>>
  /\ np_gammas = EmptyMap
  /\ np_gdiff2 = Inf
  /\ np_iterations = 0
  /\ np_result = None

Next == Start \/ Iterate \/ Return

Spec == Init /\ [][Next]_vars

\* ------------------------------------------------------------------------
\* plackett_luce.pl_numpy
\* numpy arithmetic does not raise on a zero divisor: 0/0 is nan and x/0 is
\* inf; both propagate, and every comparison with nan is False.
\* ------------------------------------------------------------------------
XAdd(a, b) ==
  IF IsOOR(a) \/ IsOOR(b) THEN OOR
  ELSE IF a = NaN \/ b = NaN THEN NaN
  ELSE IF a = Inf \/ b = Inf THEN Inf
  ELSE RAdd(a, b)

\* a - b for a, b >= 0
XSub(a, b) ==
  IF IsOOR(a) \/ IsOOR(b) THEN OOR
  ELSE IF a = NaN \/ b = NaN \/ (a = Inf /\ b = Inf) THEN NaN
  ELSE IF a = Inf \/ b = Inf THEN Inf
  ELSE RSub(a, b)

XSquare(a) ==
  IF IsOOR(a) THEN OOR
  ELSE IF a = NaN THEN NaN
  ELSE IF a = Inf THEN Inf
  ELSE RMul(a, a)

\* a / b for a, b >= 0
XDiv(a, b) ==
  IF IsOOR(a) \/ IsOOR(b) THEN OOR
  ELSE IF a = NaN \/ b = NaN \/ (a = Inf /\ b = Inf) \/ (IsZero(a) /\ IsZero(b)) THEN NaN
  ELSE IF a = Inf \/ IsZero(b) THEN Inf
  ELSE IF b = Inf THEN Zero
  ELSE RDiv(a, b)

RECURSIVE XSum(_)
XSum(s) == IF s = <<>> THEN Zero ELSE XAdd(s[1], XSum(Tail(s)))

\* line 98: list(set(...)), in one iteration order
PlayerList(rin) == AscSeq(Players(rin))

\* players.index(name) + 1
PlayerNumber(plist, name) == CHOOSE k \in 1..Len(plist) : plist[k] = name

\* line 114: the rows (player number, ranking number, finish) of a
ResultRows(plist, rs) ==
  {row \in (1..Len(plist)) \X (DOMAIN rs) \X (1..Cardinality(Competitors)) :
     row[3] <= Len(rs[row[2]]) /\ plist[row[1]] = rs[row[2]][row[3]]}

MaxOf(S) == CHOOSE x \in S : \A y \in S : y <= x

\* line 115
DimM(a) == MaxOf({row[1] : row \in a})

DimN(a) == MaxOf({row[2] : row \in a})

DimP(a) == MaxOf({row[3] : row \in a})

\* lines 116, 118: f[finish, contest] = player number, 0 where nobody finished
FinishMatrix(a) ==
  LET P == DimP(a)
      N == DimN(a)
  IN Eager([i \in 1..P |-> Eager([n \in 1..N |->
        IF \E row \in a : row[3] = i /\ row[2] = n
        THEN (CHOOSE row \in a : row[3] = i /\ row[2] = n)[1]
        ELSE 0])])

\* lines 117, 119: r[player, contest] = finish + P * (contest - 1), 0 if absent
RankMatrix(a) ==
  LET P == DimP(a)
      N == DimN(a)
      M == DimM(a)
  IN Eager([m \in 1..M |-> Eager([n \in 1..N |->
        IF \E row \in a : row[1] = m /\ row[2] = n
        THEN (CHOOSE row \in a : row[1] = m /\ row[2] = n)[3] + P * (n - 1)
        ELSE 0])])

\* line 122: players per contest
PlayersPerContest(f) ==
  [n \in 1..Len(f[1]) |-> Cardinality({i \in 1..Len(f) : f[i][n] > 0})]

\* squeeze() drops the contest axis of gammas[f - 1] when there is one contest
\* and more than one finish; choose() then broadcasts (P,1) against (P,) to a
\* P x P array
Squeezed(f) == Len(f[1]) = 1 /\ Len(f) > 1

GCols(f) == IF Squeezed(f) THEN Len(f) ELSE Len(f[1])

\* gammas[f - 1]: index -1 is the last entry
GammaAt(g, fnum) == IF fnum > 0 THEN g[fnum] ELSE g[Len(g)]

\* line 130
ChosenGammas(f, g) ==
  LET sq == Squeezed(f)
      cols == GCols(f)
  IN Eager([i \in 1..Len(f) |-> Eager([j \in 1..cols |->
        IF sq
        THEN (IF f[i][1] > 0 THEN GammaAt(g, f[j][1]) ELSE Zero)
        ELSE (IF f[i][j] > 0 THEN GammaAt(g, f[i][j]) ELSE Zero)])])

\* line 131: reverse vertical cumsum
ReverseCumsum(g0) ==
  LET P == Len(g0)
  IN Eager([i \in 1..P |-> Eager([j \in 1..Len(g0[1]) |->
        XSum([k \in 1..(P - i + 1) |-> g0[i + k - 1][j]])])])

\* line 132: g[pp - 1, arange(columns)] = 0; row index -1 is the last row
LastRowZeroed(pp, g1) ==
  LET P == Len(g1)
      row(j) == LET c == IF Len(pp) = 1 THEN pp[1] ELSE pp[j]
                IN IF c = 0 THEN P ELSE c
  IN Eager([i \in 1..P |-> Eager([j \in 1..Len(g1[1]) |->
        IF i = row(j) THEN Zero ELSE g1[i][j]])])

\* line 133: g[g > 0] = 1 / g[g > 0]
PositiveInverted(g1) ==
  Eager([i \in 1..Len(g1) |-> Eager([j \in 1..Len(g1[1]) |->
     IF IsFinite(g1[i][j]) /\ g1[i][j].n > 0 THEN RInv(g1[i][j])
     ELSE IF g1[i][j] = Inf THEN Zero
     ELSE g1[i][j]])])

\* line 134: vertical cumsum
Cumsum(g2) ==
  Eager([i \in 1..Len(g2) |-> Eager([j \in 1..Len(g2[1]) |->
     XSum([k \in 1..i |-> g2[k][j]])])])

\* g.T.flat[k] for a 0-based k
FlatOfTranspose(g3, k) == g3[(k % Len(g3)) + 1][(k \div Len(g3)) + 1]

\* line 135
PlayerTerms(r, g3) ==
  Eager([m \in 1..Len(r) |-> Eager([n \in 1..Len(r[1]) |->
     IF r[m][n] > 0 THEN FlatOfTranspose(g3, r[m][n] - 1) ELSE Zero])])

\* line 141, squared
NPGDiff2(new, old) ==
  XSum([m \in 1..Len(new) |-> XSquare(XSub(new[m], old[m]))])

\* lines 129-141: one turn of the loop from the iterate g
NPStep(f, r, w, pp, g, norm) ==
  LET g0  == ChosenGammas(f, g)
      g1  == ReverseCumsum(g0)
      g1z == LastRowZeroed(pp, g1)
      g2  == PositiveInverted(g1z)
      g3  == Cumsum(g2)
      r2  == PlayerTerms(r, g3)
      raw == Eager([m \in 1..Len(r) |-> XDiv(IntQ(w[m]), XSum(r2[m]))])
      tot == XSum(raw)
      new == IF norm THEN Eager([m \in 1..Len(r) |-> XDiv(raw[m], tot)]) ELSE raw
      gd  == NPGDiff2(new, g)
  IN IF AnyOOR(raw) \/ AnyOOR(new) \/ IsOOR(gd)
     THEN [status |-> "oor", gammas |-> g, gdiff2 |-> Inf]
     ELSE [status |-> "ok", gammas |-> new, gdiff2 |-> gd]

\* lines 98-127; numpy.max of an empty array raises ValueError
NPStart ==
  /\ np_pc = "start"
  /\ LET plist == PlayerList(rankings_in)
         rs    == SortedRankings(rankings_in)
         a     == ResultRows(plist, rs)
     IN IF check_assumption /\ SccCount(rs) # 1
        THEN /\ np_pc' = "done"
             /\ np_result' = None
             /\ UNCHANGED <<np_f, np_r, np_w, np_pp, np_gammas, np_gdiff2, np_iterations>>
        ELSE IF a = {}
        THEN /\ np_pc' = "error"
             /\ UNCHANGED <<np_f, np_r, np_w, np_pp, np_gammas, np_gdiff2,
                            np_iterations, np_result>>
        ELSE /\ np_pc' = "loop"
             /\ np_f' = FinishMatrix(a)
             /\ np_r' = RankMatrix(a)
             /\ np_w' = LET wins == Wins(rs) IN [m \in 1..Len(plist) |-> wins[plist[m]]]
             /\ np_pp' = PlayersPerContest(FinishMatrix(a))
             /\ np_gammas' = [m \in 1..DimM(a) |-> Frac(1, DimM(a))]
             /\ np_gdiff2' = Inf
             /\ np_iterations' = 0
             /\ UNCHANGED np_result
  /\ UNCHANGED <<scc_vars, in_vars, pl_vars>>

\* lines 128-141: one turn of the while loop
NPIterate ==
  /\ np_pc = "loop"
  /\ GreaterThanTolerance(np_gdiff2, tolerance)
  /\ \E step \in {IF np_iterations < MaxIter
                  THEN NPStep(np_f, np_r, np_w, np_pp, np_gammas, normalize)
                  ELSE [status |-> "oor"]} :
        IF step.status = "oor"
        THEN /\ np_pc' = "cut"
             /\ UNCHANGED <<np_gammas, np_gdiff2, np_iterations>>
        ELSE /\ np_pc' = "loop"
             /\ np_gammas' = step.gammas
             /\ np_gdiff2' = step.gdiff2
             /\ np_iterations' = np_iterations + 1
  /\ UNCHANGED <<np_f, np_r, np_w, np_pp, np_result, scc_vars, in_vars, pl_vars>>

\* lines 128 and 149: the loop condition failing, return the dict
NPReturn ==
  /\ np_pc = "loop"
  /\ ~GreaterThanTolerance(np_gdiff2, tolerance)
  /\ np_pc' = "done"
  /\ np_result' = Dict([p \in Players(rankings_in) |->
                          np_gammas[PlayerNumber(PlayerList(rankings_in), p)]])
  /\ UNCHANGED <<np_f, np_r, np_w, np_pp, np_gammas, np_gdiff2, np_iterations,
                 scc_vars, in_vars, pl_vars>>

\* test_pl_nascar.py lines 10-11: the script goes on to its second call only
\* when plackett_luce returned a mapping; a raise ends the script at line 10
\* and a returned None ends it at line 11 (gammas.items())
PLReturnedDict == pc = "done" /\ ~result.none

\* test_pl_nascar.py lines 10 and 15: plackett_luce is called, then pl_numpy
\* on the same rankings
NextBoth ==
  \/ Start
  \/ Iterate
  \/ Return
  \/ (PLReturnedDict /\ NPStart)
  \/ NPIterate
  \/ NPReturn

SpecBoth == Init /\ [][NextBoth]_vars

\* ------------------------------------------------------------------------
\* Properties of scc
\* ------------------------------------------------------------------------
EdgeSet(es) == Range(es)

RECURSIVE ReachableFrom(_, _)
ReachableFrom(S, E) ==
  LET T == S \cup {e[2] : e \in {x \in E : x[1] \in S}}
  IN IF T = S THEN S ELSE ReachableFrom(T, E)

MutuallyReachable(u, v, E) ==
  v \in ReachableFrom({u}, E) /\ u \in ReachableFrom({v}, E)

\* C1: when scc returns, the keys of the mapping are exactly the edge
\* endpoints, and two nodes have the same root iff each is reachable from
\* the other; the right-hand side depends on the set of edges only, so the
\* partition is the same for every ordering (and duplication) of the list
\* and for every iteration order of the sets.
C1_SccPartition ==
  scc_pc = "done" =>
    /\ DOMAIN roots = Endpoints(edges)
    /\ \A u, v \in DOMAIN roots :
         (roots[u] = roots[v]) <=> MutuallyReachable(u, v, EdgeSet(edges))

\* scc returned on a graph of three nodes in two components, one of them a
\* cycle of two nodes
C1_Witness ==
  /\ scc_pc = "done"
  /\ Cardinality(nodes) = 3
  /\ Cardinality({roots[u] : u \in DOMAIN roots}) = 2
  /\ Len(edges) = 3

\* C9: scc terminates: both loops empty their stacks and scc returns; every
\* node is appended to the finishing list exactly once (never twice, and
\* once by the end of pass 1) and is assigned a root exactly once.
C9_SccTerminates ==
  /\ <>(scc_pc = "done")
  /\ [](\A u \in Competitors : appended[u] <= 1 /\ assigned[u] <= 1)
  /\ [](scc_pc \in {"pass2", "done"} =>
          /\ stack_forward = <<>>
          /\ \A u \in nodes : appended[u] = 1)
  /\ [](scc_pc = "done" =>
          /\ stack_backward = <<>>
          /\ \A u \in nodes : assigned[u] = 1)

\* scc returned on a graph in which a node was pushed by two predecessors
C9_Witness ==
  /\ scc_pc = "done"
  /\ Cardinality(nodes) = 3
  /\ \E u \in nodes : Cardinality(in_neighbors[u]) >= 2 /\ appended[u] = 1

\* ------------------------------------------------------------------------
\* Properties of plackett_luce, stated on the arguments of the call
\* ------------------------------------------------------------------------
Pool == UNION {DOMAIN rankings_in[i] : i \in DOMAIN rankings_in}

RankingLength(i) == Cardinality(DOMAIN rankings_in[i])

\* a beat b in some ranking
BeatRelation ==
  {ab \in Competitors \X Competitors :
     \E i \in DOMAIN rankings_in :
        /\ ab[1] \in DOMAIN rankings_in[i]
        /\ ab[2] \in DOMAIN rankings_in[i]
        /\ rankings_in[i][ab[1]] < rankings_in[i][ab[2]]}

StronglyConnectedPool ==
  \A u, v \in Pool : v \in ReachableFrom({u}, BeatRelation)

\* the pool cannot be split into two groups with no result linking them
ConnectedPool ==
  \A u, v \in Pool :
     v \in ReachableFrom({u}, BeatRelation \cup {<<ab[2], ab[1]>> : ab \in BeatRelation})

ReturnedNone == pc = "done" /\ result.none

ReturnedDict == pc = "done" /\ ~result.none

\* C2 (as claimed): with the check enabled, a pool that is not strongly
\* connected under the beat relation makes plackett_luce return None before
\* any iteration and without raising.
C2_IllPosedRejected ==
  (check_assumption /\ ~StronglyConnectedPool /\ pc # "start")
    => (ReturnedNone /\ iteration = 0)

\* C5 (as claimed): an input with a ranking of length 1 never makes an
\* iteration divide by zero.
C5_NoZeroDivision ==
  (\E i \in DOMAIN rankings_in : RankingLength(i) = 1) => pc # "error"

\* C6 (as claimed): the call with no rankings and the check enabled returns
\* an empty mapping, not None.
C6_EmptyRankings ==
  (rankings_in = <<>> /\ check_assumption /\ pc = "done")
    => (~result.none /\ result.dict = <<>>)

AlwaysLast(D) ==
  /\ D \in Pool
  /\ \A i \in DOMAIN rankings_in :
        D \in DOMAIN rankings_in[i] => rankings_in[i][D] = RankingLength(i)

FinishedAhead(X, D) == <<X, D>> \in BeatRelation

StrictlyLess(a, b) ==
  LET df == RSub(a, b) IN ~IsOOR(df) /\ df.n < 0

\* C7 (as claimed): on a connected pool with a competitor D that is last in
\* every ranking it enters (and was beaten at least once), the call
\* completes normally and returns a mapping in which D is strictly below
\* every competitor that finished ahead of D.
C7_LastPlaceBelow ==
  \A D \in Competitors :
     (/\ ConnectedPool
      /\ AlwaysLast(D)
      /\ \E X \in Pool : FinishedAhead(X, D)
      /\ pc \in {"done", "error"})
       => /\ ReturnedDict
          /\ \A X \in Pool :
                FinishedAhead(X, D) => StrictlyLess(result.dict[D], result.dict[X])

\* the k-th cyclic rotation of the ranking d: who was at position q is at q - k
Rotation(d, k) ==
  [p \in DOMAIN d |-> ((d[p] - 1 - k) % Cardinality(DOMAIN d)) + 1]

\* the rankings are all the cyclic rotations of the first one, each once
IsRotationInput ==
  /\ Len(rankings_in) >= 2
  /\ RankingLength(1) = Len(rankings_in)
  /\ {rankings_in[i] : i \in DOMAIN rankings_in}
       = {Rotation(rankings_in[1], k) : k \in 0..(Len(rankings_in) - 1)}

AllEqual(g) == \A p, q \in DOMAIN g : g[p] = g[q]

\* C8: on all cyclic rotations of one ordering of n >= 2 competitors the
\* call passes the check, never raises, gives every competitor the same
\* value at every iterate, leaves the loop after its first turn and returns
\* a mapping over the pool with all strengths equal.
C8_RotationsEqual ==
  IsRotationInput =>
    /\ pc \notin {"error", "cut"}
    /\ ~ReturnedNone
    /\ iteration <= 1
    /\ pc = "loop" =>
         /\ DOMAIN gammas = Pool
         /\ AllEqual(gammas)
         /\ iteration = 1 => ~GreaterThanTolerance(gdiff2, tolerance)
    /\ pc = "done" =>
         /\ DOMAIN result.dict = Pool
         /\ AllEqual(result.dict)

\* the three rotations of an ordering of three competitors, checked, returned
C8_Witness ==
  /\ IsRotationInput
  /\ Cardinality(Pool) = 3
  /\ check_assumption
  /\ ReturnedDict
  /\ iteration = 1

Positive(a) == a.n > 0 /\ a.d > 0

\* C10: when the check is enabled and passes on rankings all of length >= 2,
\* every competitor has wins >= 1, every gamma of every iterate is strictly
\* positive, no divisor of the next turn (contention sums, denominators) is
\* zero and no turn raises, and the returned mapping has one strictly
\* positive entry per competitor of the pool.
C10_PositiveIterates ==
  (/\ check_assumption
   /\ \A i \in DOMAIN rankings_in : RankingLength(i) >= 2
   /\ pc \in {"loop", "error", "cut"} \/ ReturnedDict)
    => /\ pc # "error"
       /\ \A p \in Pool : ws[p] >= 1
       /\ DOMAIN gammas = Pool
       /\ \A p \in Pool : Positive(gammas[p])
       /\ LET sums  == ContentionSums(rankings, gammas)
              gsums == GammaSums(sums)
          IN /\ \A i \in DOMAIN rankings :
                   \A k \in 1..Len(rankings[i]) : ~IsZero(sums[i][k])
             /\ \A p \in Pool : ~IsZero(Denominator(p, rankings, gsums))
       /\ pc = "done" =>
            /\ DOMAIN result.dict = Pool
            /\ \A p \in Pool : Positive(result.dict[p])

\* a checked call on three competitors returned unequal strengths after at
\* least two turns
C10_Witness ==
  /\ check_assumption
  /\ \A i \in DOMAIN rankings_in : RankingLength(i) >= 2
  /\ Cardinality(Pool) = 3
  /\ ReturnedDict
  /\ iteration >= 2
  /\ ~AllEqual(result.dict)

\* --- the MM update, stated on the dicts -----------------------------------
\* sum of the previous-iterate gammas of the competitors at positions q..n
\* of the ranking d
InContention(d, q, g) ==
  LET who == AscSeq({x \in DOMAIN d : d[x] >= q})
  IN RSum([k \in 1..Len(who) |-> g[who[k]]])

\* division that is total: an undefined quotient is NaN
QuotientOrNaN(a, b) ==
  IF a = NaN \/ b = NaN \/ IsZero(b) THEN NaN ELSE RDiv(a, b)

\* positions whose terms the code gives a competitor at position p of n:
\* at or before p, the last excluded
PositionsAtOrBefore(p, n) == {q \in 1..(n - 1) : q <= p}

\* positions as the claim words them: at or after p, the last excluded
PositionsAtOrAfter(p, n) == {q \in 1..(n - 1) : q >= p}

WinsOf(c) ==
  Cardinality({i \in DOMAIN rankings_in :
                 c \in DOMAIN rankings_in[i] /\ rankings_in[i][c] < RankingLength(i)})

\* for each ranking and each of its positions q, the reciprocal of the sum
\* of the previous-iterate gammas at positions q..n
ContentionReciprocals(g) ==
  Eager([i \in DOMAIN rankings_in |->
     Eager([q \in 1..RankingLength(i) |->
        QuotientOrNaN(IntQ(1), InContention(rankings_in[i], q, g))])])

\* denominator[c] with the terms of positions before(p, n) or after(p, n)
DenominatorOf(c, recips, before) ==
  RSum([i \in DOMAIN rankings_in |->
          IF c \in DOMAIN rankings_in[i]
          THEN LET d == rankings_in[i]
                   n == RankingLength(i)
                   qs == AscSeq(IF before THEN PositionsAtOrBefore(d[c], n)
                                ELSE PositionsAtOrAfter(d[c], n))
               IN RSum([k \in 1..Len(qs) |-> recips[i][qs[k]]])
          ELSE Zero])

\* the iterate that follows g: wins / denominator, rescaled to sum 1 when
\* normalize is set
UpdateOf(g, before) ==
  LET recips == ContentionReciprocals(g)
      raw == Eager([c \in Pool |->
                QuotientOrNaN(IntQ(WinsOf(c)), DenominatorOf(c, recips, before))])
      who == AscSeq(Pool)
      total == IF \E c \in Pool : raw[c] = NaN THEN NaN
               ELSE RSum([k \in 1..Len(who) |-> raw[who[k]]])
  IN IF normalize THEN Eager([c \in Pool |-> QuotientOrNaN(raw[c], total)]) ELSE raw

\* the turn of the loop computed a new iterate
TurnCompleted == pc = "loop" /\ iteration' = iteration + 1

SameUnlessOutOfRange(expected, got) ==
  /\ DOMAIN got = DOMAIN expected
  /\ \A c \in DOMAIN expected : IsOOR(expected[c]) \/ got[c] = expected[c]

\* as above, and nothing is asked where the expected quotient is undefined
SameWhereDefined(expected, got) ==
  /\ DOMAIN got = DOMAIN expected
  /\ \A c \in DOMAIN expected :
        IsOOR(expected[c]) \/ expected[c] = NaN \/ got[c] = expected[c]

\* C3 (as claimed): each turn sets gamma[c] to wins[c] / denominator[c] with
\* the terms of the positions at or after c's own, the last excluded.
C3_UpdateAtOrAfter ==
  [][TurnCompleted => SameWhereDefined(UpdateOf(gammas, FALSE), gammas')]_vars

\* C3 (amended): each turn that completes sets gamma[c] to wins[c] /
\* denominator[c] (then rescaled to sum 1 when normalize is set), where
\* wins[c] counts the rankings in which c is not last and a ranking of
\* length n with c at position p contributes the terms of the positions
\* 1 <= p' <= min(p, n - 1), each the reciprocal of the sum of the
\* previous-iterate gammas at positions p'..n.
C3_UpdateAtOrBefore ==
  [][TurnCompleted => SameUnlessOutOfRange(UpdateOf(gammas, TRUE), gammas')]_vars

\* a second turn completed, from an iterate that is not uniform, with a
\* ranking of three competitors, and the expected iterate is in range
C3_Witness ==
  /\ pc = "loop"
  /\ iteration >= 2
  /\ ~AllEqual(gammas)
  /\ \E i \in DOMAIN rankings_in : RankingLength(i) = 3
  /\ \A c \in Pool : ~IsOOR(UpdateOf(gammas, TRUE)[c])

\* ------------------------------------------------------------------------
\* Properties of the two variants
\* ------------------------------------------------------------------------
\* plackett_luce returned a mapping and the call of pl_numpy that follows
\* has returned or raised
BothEnded == ReturnedDict /\ np_pc \in {"done", "error"}

\* C4 (as claimed): for the same arguments, where plackett_luce returns a
\* mapping pl_numpy returns a mapping over the same competitors with the same
\* strengths, and after as many turns as plackett_luce took its iterate is
\* the returned one.
C4_VariantsAgree ==
  /\ BothEnded => (np_pc = "done" /\ np_result = result)
  /\ (ReturnedDict /\ np_pc = "loop" /\ np_iterations = iteration)
       => \A p \in Pool : np_gammas[PlayerNumber(PlayerList(rankings_in), p)] = gammas[p]

\* both variants returned a mapping
BothReturnedDict == ReturnedDict /\ np_pc = "done" /\ ~np_result.none

\* where plackett_luce returns a mapping, pl_numpy returns the same one
AgreeWhereBothReturn == BothReturnedDict => np_result = result

=============================================================================
